---- MODULE Spec2Model ----
(***************************************************************************)
(* Model of the automatic graph layout of nwichert/flow.                   *)
(*                                                                         *)
(* Two generations of getLayoutedElements exist in the sources:            *)
(*   - utils/layout.ts (src/unnamed/part_012): asynchronous, backed by ELK *)
(*   - src/src/utils/generateWorkflow.ts:     synchronous, backed by Dagre *)
(* Both are modelled; `impl` says which one a call runs.                   *)
(*                                                                         *)
(* Around them, the diagram store (src/src/store/useStoryStore.ts) with    *)
(* its working nodes and edges, the saved diagrams, the debounced save,    *)
(* autoLayout and the import of a generated workflow.                      *)
(***************************************************************************)
EXTENDS Integers, Sequences, FiniteSets, TLC

\* ------------------------------------------------------------------------
\* State
\* ------------------------------------------------------------------------
VARIABLES
  pc,         \* "idle" | "awaiting" (the ELK promise is pending) | "returned"
  impl,       \* which getLayoutedElements runs: "elk" | "dagre" | "none"
  nodes,      \* the caller's node array
  edges,      \* the caller's edge array
  direction,  \* the direction argument
  graph,      \* the graph handed to the layout backend (elkGraph / g)
  backend,    \* how the backend's computation ended:
              \* "none" | "ok" | "partial" | "failed"
  result,     \* what the call gave back
  memo,       \* history: arguments and result of one earlier call
  \* the store
  userStories,    \* the saved diagrams: id -> diagram (type and collections)
  activeStoryId,  \* id of the active diagram, or Null
  storeNodes,     \* the working nodes (`nodes` of the store)
  storeEdges,     \* the working edges (`edges` of the store)
  saveTimeout,    \* TRUE while the timer of _debouncedSave is pending
  remote,         \* the documents Firestore holds: id -> document
  idCounter,      \* the module-level counter behind getNextId
  inFlight,       \* the autoLayout calls waiting for getLayoutedElements
  isPresentationMode,
  presentationOrder,  \* the ids the presentation steps through
  currentStepIndex,
  \* the working collections of the other diagram types
  actors, messages, states, transitions, entities, relationships,
  gen,            \* proceedWithWorkflowGeneration: where it stands
  \* history of the store
  settled,        \* the autoLayout calls that have applied their result
  layoutCalls,    \* how many times getLayoutedElements was called
  layoutActions,  \* how many auto-layout actions and imports took place on
                  \* a diagram with nodes
  unsaved         \* the diagrams with an edit that no save has written yet

layoutVars == <<pc, impl, nodes, edges, direction, graph, backend, result, memo>>

presentVars == <<presentationOrder, currentStepIndex>>

contentVars == <<actors, messages, states, transitions, entities, relationships>>

storeVars == <<userStories, activeStoryId, storeNodes, storeEdges, saveTimeout, remote,
               idCounter, inFlight, isPresentationMode, presentVars, contentVars, gen,
               settled, layoutCalls, layoutActions, unsaved>>

vars == <<layoutVars, storeVars>>

\* ------------------------------------------------------------------------
\* Bounds of the model
\* ------------------------------------------------------------------------
MaxEdges == 2

NodeIds == {"A", "B"}
\* an identifier that is never the id of an input node (a dangling reference)
DanglingId == "X"
EndpointIds == NodeIds \cup {DanglingId}

\* ------------------------------------------------------------------------
\* Program constants
\* ------------------------------------------------------------------------
ELK_NODE_WIDTH == 272
ELK_NODE_HEIGHT == 120
DAGRE_NODE_WIDTH == 256
DAGRE_NODE_HEIGHT == 120

\* 'elk.spacing.nodeNode' and Dagre's nodesep: the room between two nodes
\* of one rank
ELK_NODE_SPACING == 80
DAGRE_NODESEP == 50

LayoutDirection == {"TB", "LR", "BT", "RL"}

\* directionMap of utils/layout.ts
directionMap == [d \in LayoutDirection |->
                   CASE d = "TB" -> "DOWN"
                     [] d = "BT" -> "UP"
                     [] d = "LR" -> "RIGHT"
                     [] d = "RL" -> "LEFT"]

\* ------------------------------------------------------------------------
\* Values
\* ------------------------------------------------------------------------
\* JavaScript `undefined` for a position / a connection side
Undefined == "undefined"
NoPosition == [undef |-> TRUE]

Position(px, py) == [x |-> px, y |-> py]

\* A React Flow node as the diagram store holds it: the store always gives a
\* node a position (addNode defaults to {x: 250, y: 250}) and never sets
\* sourcePosition / targetPosition.
StoreNode(i) ==
  [id |-> i,
   type |-> "storyNode",
   position |-> IF i = "A" THEN Position(250, 250) ELSE Position(300, 300),
   data |-> <<"data", i>>,
   selected |-> (i = "A"),
   sourcePosition |-> Undefined,
   targetPosition |-> Undefined]

\* A React Flow edge; sourceHandle / targetHandle are the user's manual choice.
StoreEdge(n, s, t) ==
  [id |-> <<"e", n, s, t>>,
   source |-> s,
   target |-> t,
   sourceHandle |-> "bottom",
   targetHandle |-> "top"]

\* ------------------------------------------------------------------------
\* The layout backend (ELK layered / Dagre): a layered, Sugiyama-style
\* layout over the graph the caller built.  A graph is
\*   [children |-> sequence of [id, width, height],
\*    edges    |-> sequence of [source, target]]
\* ------------------------------------------------------------------------
Horizontal(dirn) == dirn \in {"LR", "RL"}
Reversed(dirn) == dirn \in {"BT", "RL"}

RECURSIVE SeqSum(_)
SeqSum(s) == IF s = <<>> THEN 0 ELSE Head(s) + SeqSum(Tail(s))

SetMax(S) == IF S = {} THEN 0 ELSE CHOOSE m \in S : \A n \in S : n <= m

ChildIds(children) == {children[i].id : i \in 1..Len(children)}

\* a path of at most k edges of E leads from a to b
RECURSIVE Reaches(_, _, _, _)
Reaches(E, a, b, k) ==
  \/ a = b
  \/ /\ k > 0
     /\ \E e \in E : e[1] = a /\ Reaches(E, e[2], b, k - 1)

\* Cycle handling: self-loops impose no ordering constraint; an edge that
\* would close a cycle (a feedback edge) is reversed for ranking only.
RECURSIVE RankingEdges(_, _, _, _)
RankingEdges(es, i, acc, k) ==
  IF i > Len(es) THEN acc
  ELSE LET u == es[i].source
           v == es[i].target
       IN IF u = v THEN RankingEdges(es, i + 1, acc, k)
          ELSE IF Reaches(acc, v, u, k)
               THEN RankingEdges(es, i + 1, acc \cup {<<v, u>>}, k)
               ELSE RankingEdges(es, i + 1, acc \cup {<<u, v>>}, k)

\* Rank assignment: longest path from a node without predecessors
RECURSIVE Rank(_, _)
Rank(E, v) ==
  LET preds == {e[1] : e \in {f \in E : f[2] = v}}
  IN IF preds = {} THEN 0 ELSE 1 + SetMax({Rank(E, u) : u \in preds})

\* Coordinate assignment; the result maps each child id to the top-left
\* corner of its box.  Within a rank the nodes keep the order of `children`.
LayeredLayout(gr, dirn, nodesep, ranksep, margin) ==
  LET children == gr.children
      idx == 1..Len(children)
      ids == ChildIds(children)
      E == RankingEdges(gr.edges, 1, {}, Cardinality(ids))
      rk == [i \in idx |-> Rank(E, children[i].id)]
      prim == [i \in idx |-> IF Horizontal(dirn) THEN children[i].width
                                                 ELSE children[i].height]
      sec == [i \in idx |-> IF Horizontal(dirn) THEN children[i].height
                                                ELSE children[i].width]
      maxRank == SetMax({rk[i] : i \in idx})
      \* a rank is as deep as its deepest node
      extent == [r \in 0..maxRank |-> SetMax({prim[i] : i \in {j \in idx : rk[j] = r}})]
      rankStart == [r \in 0..maxRank |->
                      margin + SeqSum([q \in 1..r |-> extent[q - 1] + ranksep])]
      total == rankStart[maxRank] + extent[maxRank] + margin
      \* along the rank the nodes follow each other, nodesep apart
      secStart == [i \in idx |->
                     margin + SeqSum([n \in idx |->
                        IF n < i /\ rk[n] = rk[i] THEN sec[n] + nodesep ELSE 0])]
      \* a node is centred in the depth of its rank
      p0 == [i \in idx |-> rankStart[rk[i]] + (extent[rk[i]] - prim[i]) \div 2]
      p == [i \in idx |-> IF Reversed(dirn) THEN total - p0[i] - prim[i] ELSE p0[i]]
      at == [i \in idx |-> IF Horizontal(dirn) THEN Position(p[i], secStart[i])
                                               ELSE Position(secStart[i], p[i])]
  IN [c \in ids |-> at[CHOOSE i \in idx : children[i].id = c]]

\* ------------------------------------------------------------------------
\* utils/layout.ts: getLayoutedElements on ELK (asynchronous)
\* ------------------------------------------------------------------------
NoGraph == [children |-> <<>>, edges |-> <<>>, direction |-> "none"]

\* ElkGraph with children that carry no width and no height
ElkGraph_noSize(ns, es, d) ==
  [children |-> [i \in 1..Len(ns) |-> [id |-> ns[i].id, width |-> 0, height |-> 0]],
   edges |-> [i \in 1..Len(es) |->
                [id |-> es[i].id, source |-> es[i].source, target |-> es[i].target]],
   direction |-> directionMap[d]]

\* the elkGraph literal: one child per node, one ELK edge per input edge
ElkGraph(ns, es, d) ==
  [children |-> [i \in 1..Len(ns) |->
                   [id |-> ns[i].id, width |-> ELK_NODE_WIDTH, height |-> ELK_NODE_HEIGHT]],
   edges |-> [i \in 1..Len(es) |->
                [id |-> es[i].id, source |-> es[i].source, target |-> es[i].target]],
   direction |-> directionMap[d]]

ElkDirection(ed) == CHOOSE d \in LayoutDirection : directionMap[d] = ed

\* elk.layout (ElkRejects, ElkLayout): the promise rejects when an edge
\* references a shape that is not a child of the graph; otherwise it
\* resolves with every child carrying the top-left corner x, y
\* ('elk.spacing.nodeNode' 80, 'elk.layered.spacing.nodeNodeBetweenLayers'
\* 100, default padding 12).
ElkRejects(gr) ==
  \E i \in 1..Len(gr.edges) :
     \/ gr.edges[i].source \notin ChildIds(gr.children)
     \/ gr.edges[i].target \notin ChildIds(gr.children)

ElkLayout(gr) ==
  LET at == LayeredLayout(gr, ElkDirection(gr.direction), ELK_NODE_SPACING, 100, 12)
  IN IF ElkRejects(gr) THEN [status |-> "rejected", children |-> <<>>]
     ELSE [status |-> "resolved",
           children |-> [i \in 1..Len(gr.children) |->
                           [id |-> gr.children[i].id,
                            placed |-> TRUE,
                            x |-> at[gr.children[i].id].x,
                            y |-> at[gr.children[i].id].y]]]

\* ElkMapNodes with a module-level count of earlier calls leaking into x
ElkMapNodes_drift(ns, children) ==
  [i \in 1..Len(ns) |->
     LET found == {j \in 1..Len(children) : children[j].id = ns[i].id}
         elkNode == children[CHOOSE j \in found : \A k \in found : j <= k]
         drift == IF memo.set THEN memo.later ELSE 0
     IN IF found # {} /\ elkNode.placed
        THEN [ns[i] EXCEPT !.position = Position(elkNode.x + drift, elkNode.y)]
        ELSE ns[i]]

\* ElkMapNodes without the test of elkNode.x and elkNode.y
ElkMapNodes_noCheck(ns, children) ==
  [i \in 1..Len(ns) |->
     LET found == {j \in 1..Len(children) : children[j].id = ns[i].id}
         elkNode == children[CHOOSE j \in found : \A k \in found : j <= k]
     IN IF found # {}
        THEN [ns[i] EXCEPT !.position = IF elkNode.placed
                                        THEN Position(elkNode.x, elkNode.y)
                                        ELSE NoPosition]
        ELSE ns[i]]

\* nodes.map(...) of the try block: the position comes from the ELK child
\* of the same id; a node without such a child is returned as it came
ElkMapNodes(ns, children) ==
  [i \in 1..Len(ns) |->
     LET found == {j \in 1..Len(children) : children[j].id = ns[i].id}
         elkNode == children[CHOOSE j \in found : \A k \in found : j <= k]
     IN IF found # {} /\ elkNode.placed
        THEN [ns[i] EXCEPT !.position = Position(elkNode.x, elkNode.y)]
        ELSE ns[i]]

\* ElkSettled with a catch block that returns no nodes
ElkSettled_dropOnFail(ns, es, laid) ==
  IF laid.status = "resolved"
  THEN [status |-> "returned", nodes |-> ElkMapNodes(ns, laid.children), edges |-> es]
  ELSE [status |-> "returned", nodes |-> <<>>, edges |-> es]

\* ElkSettled with a catch block that throws the error on
ElkSettled_rethrow(ns, es, laid) ==
  IF laid.status = "resolved"
  THEN [status |-> "returned", nodes |-> ElkMapNodes(ns, laid.children), edges |-> es]
  ELSE [status |-> "thrown", nodes |-> <<>>, edges |-> <<>>]

\* the value the promise of getLayoutedElements settles with, once
\* elk.layout has settled with `laid`
ElkSettled(ns, es, laid) ==
  IF laid.status = "resolved"
  THEN [status |-> "returned", nodes |-> ElkMapNodes(ns, laid.children), edges |-> es]
  ELSE \* catch (error): return { nodes, edges }
       [status |-> "returned", nodes |-> ns, edges |-> es]

\* the fast path taken before the graph is built
ElkEmpty == [status |-> "returned", nodes |-> <<>>, edges |-> <<>>]

\* ------------------------------------------------------------------------
\* utils/generateWorkflow.ts: getLayoutedElements on Dagre (synchronous)
\* ------------------------------------------------------------------------
\* g.setEdge(v, w) creates v and w when the graph does not have them; such a
\* node has no label, and Dagre lays it out with width 0 and height 0
RECURSIVE SetEdgeNodes(_, _, _)
SetEdgeNodes(es, i, children) ==
  IF i > Len(es) THEN children
  ELSE LET ids == ChildIds(children)
           s == es[i].source
           t == es[i].target
           withS == IF s \in ids THEN children
                    ELSE Append(children, [id |-> s, width |-> 0, height |-> 0])
           withT == IF t \in ChildIds(withS) THEN withS
                    ELSE Append(withS, [id |-> t, width |-> 0, height |-> 0])
       IN SetEdgeNodes(es, i + 1, withT)

\* DagreGraph with g.setEdge(edge.target, edge.source)
DagreGraph_swapped(ns, es, d) ==
  [children |-> SetEdgeNodes(es, 1,
                   [i \in 1..Len(ns) |->
                      [id |-> ns[i].id, width |-> DAGRE_NODE_WIDTH,
                       height |-> DAGRE_NODE_HEIGHT]]),
   edges |-> [i \in 1..Len(es) |-> [source |-> es[i].target, target |-> es[i].source]],
   direction |-> d]

\* the graph after nodes.forEach(g.setNode) and edges.forEach(g.setEdge)
DagreGraph(ns, es, d) ==
  [children |-> SetEdgeNodes(es, 1,
                   [i \in 1..Len(ns) |->
                      [id |-> ns[i].id, width |-> DAGRE_NODE_WIDTH,
                       height |-> DAGRE_NODE_HEIGHT]]),
   edges |-> [i \in 1..Len(es) |-> [source |-> es[i].source, target |-> es[i].target]],
   direction |-> d]

\* Dagre.layout(g): every node of g gets the centre of its box
\* (nodesep 50, ranksep 80, marginx = marginy = 50)
DagreLayout(gr) ==
  LET at == LayeredLayout(gr, gr.direction, DAGRE_NODESEP, 80, 50)
      size == [c \in ChildIds(gr.children) |->
                 LET n == gr.children[CHOOSE i \in 1..Len(gr.children) :
                                            gr.children[i].id = c]
                 IN [w |-> n.width, h |-> n.height]]
  IN [status |-> "ok",
      centre |-> [c \in ChildIds(gr.children) |->
                    Position(at[c].x + size[c].w \div 2, at[c].y + size[c].h \div 2)]]

DagreSourcePosition(d) == IF d = "LR" \/ d = "RL" THEN "right" ELSE "bottom"
DagreTargetPosition(d) == IF d = "LR" \/ d = "RL" THEN "left" ELSE "top"

\* DagreMapNodes building the node anew instead of spreading ...node
DagreMapNodes_noSpread(ns, d, centre) ==
  [i \in 1..Len(ns) |->
     [id |-> ns[i].id,
      type |-> Undefined,
      position |-> Position(centre[ns[i].id].x - DAGRE_NODE_WIDTH \div 2,
                            centre[ns[i].id].y - DAGRE_NODE_HEIGHT \div 2),
      data |-> Undefined,
      selected |-> FALSE,
      sourcePosition |-> DagreSourcePosition(d),
      targetPosition |-> DagreTargetPosition(d)]]

\* DagreMapNodes handing the centre of the box on as the position
DagreMapNodes_centre(ns, d, centre) ==
  [i \in 1..Len(ns) |->
     [ns[i] EXCEPT
        !.position = Position(centre[ns[i].id].x, centre[ns[i].id].y),
        !.sourcePosition = DagreSourcePosition(d),
        !.targetPosition = DagreTargetPosition(d)]]

\* nodes.map(...): centre to top-left, and the handle sides of the direction
DagreMapNodes(ns, d, centre) ==
  [i \in 1..Len(ns) |->
     [ns[i] EXCEPT
        !.position = Position(centre[ns[i].id].x - DAGRE_NODE_WIDTH \div 2,
                              centre[ns[i].id].y - DAGRE_NODE_HEIGHT \div 2),
        !.sourcePosition = DagreSourcePosition(d),
        !.targetPosition = DagreTargetPosition(d)]]

\* what the call gives back once Dagre.layout has ended with `laid`; the
\* function has no try / catch, an exception of Dagre.layout leaves it
DagreSettled(ns, es, d, laid) ==
  IF laid.status = "ok"
  THEN [status |-> "returned", nodes |-> DagreMapNodes(ns, d, laid.centre), edges |-> es]
  ELSE [status |-> "thrown", nodes |-> <<>>, edges |-> <<>>]

\* getLayoutedElements as a function of its arguments
GetLayoutedElements(im, ns, es, d) ==
  IF im = "elk"
  THEN IF Len(ns) = 0 THEN ElkEmpty
       ELSE ElkSettled(ns, es, ElkLayout(ElkGraph(ns, es, d)))
  ELSE DagreSettled(ns, es, d, DagreLayout(DagreGraph(ns, es, d)))

\* ------------------------------------------------------------------------
\* Inputs of a call
\* ------------------------------------------------------------------------
\* node lists: the lists without repetition over NodeIds
NodeSeqs ==
  LET all == UNION {[1..k -> NodeIds] : k \in 0..Cardinality(NodeIds)}
  IN {[i \in DOMAIN s |-> StoreNode(s[i])] :
        s \in {t \in all : \A i, j \in DOMAIN t : i # j => t[i] # t[j]}}

\* edge lists: up to MaxEdges edges between node ids and the dangling id;
\* self-loops and parallel edges included
EdgeSeqs ==
  LET pairs == EndpointIds \X EndpointIds
  IN {[i \in DOMAIN s |-> StoreEdge(i, s[i][1], s[i][2])] :
        s \in UNION {[1..k -> pairs] : k \in 0..MaxEdges}}

\* ------------------------------------------------------------------------
\* store/useStoryStore.ts: the state of the store
\* ------------------------------------------------------------------------
Null == "null"

\* the diagrams fetched by initializeStore
StoryIds == {"s1", "s2"}

\* DiagramType
DiagramTypes == {"workflow", "ssd", "state-diagram", "erd"}

\* a diagram of userStories: its type and its eight collections
Diagram(t, ns, es, as, ms, ss, ts, ens, rs) ==
  [type |-> t, nodes |-> ns, edges |-> es, actors |-> as, messages |-> ms,
   states |-> ss, transitions |-> ts, entities |-> ens, relationships |-> rs]

\* a workflow diagram with nodes ns and edges es
Content(ns, es) == Diagram("workflow", ns, es, <<>>, <<>>, <<>>, <<>>, <<>>, <<>>)

\* `let idCounter = 100`
FIRST_ID == 100

\* proceedWithWorkflowGeneration is not running
NoGeneration == [pc |-> "idle", story |-> Null]

\* the store as created, after initializeStore has fetched the diagrams:
\* no diagram is active, nothing is pending
StoreInit ==
  /\ userStories = [s \in StoryIds |-> Content(<<>>, <<>>)]
  /\ remote = [s \in StoryIds |-> Content(<<>>, <<>>)]
  /\ activeStoryId = Null
  /\ storeNodes = <<>>
  /\ storeEdges = <<>>
  /\ saveTimeout = FALSE
  /\ idCounter = FIRST_ID
  /\ inFlight = {}
  /\ isPresentationMode = FALSE
  /\ presentationOrder = <<>>
  /\ currentStepIndex = 0
  /\ actors = <<>>
  /\ messages = <<>>
  /\ states = <<>>
  /\ transitions = <<>>
  /\ entities = <<>>
  /\ relationships = <<>>
  /\ gen = NoGeneration
  /\ settled = {}
  /\ layoutCalls = 0
  /\ layoutActions = 0
  /\ unsaved = {}

\* a node, an edge, and the members of the other collections as an earlier
\* session has saved them: that session's getNextId counted from 100 too
StoredNode(id, ord) ==
  [id |-> id, position |-> [x |-> 250, y |-> 250], order |-> ord, nodeKind |-> Undefined]
StoredEdge(s, t) == [id |-> <<"xy-edge", s, t, "">>, source |-> s, target |-> t]
StoredMember(id, ord) == [id |-> id, order |-> ord]

\* the diagrams fetchDiagrams may deliver: an empty workflow, a workflow of
\* two connected nodes, a workflow with an edge to a node that is no longer
\* there, a sequence diagram, a state diagram and an entity diagram
StoredDiagrams ==
  {Content(<<>>, <<>>),
   Content(<<StoredNode("100", 1), StoredNode("101", 2)>>, <<StoredEdge("100", "101")>>),
   Content(<<StoredNode("100", 1)>>, <<StoredEdge("100", "101")>>),
   Diagram("ssd", <<>>, <<>>, <<StoredMember("100", 1), StoredMember("101", 2)>>,
           <<StoredMember("102", 1), StoredMember("103", 2)>>, <<>>, <<>>, <<>>, <<>>),
   Diagram("state-diagram", <<>>, <<>>, <<>>, <<>>,
           <<StoredMember("100", 1), StoredMember("101", 2)>>, <<StoredMember("102", 1)>>,
           <<>>, <<>>),
   Diagram("erd", <<>>, <<>>, <<>>, <<>>, <<>>, <<>>,
           <<StoredMember("100", 1), StoredMember("101", 2)>>, <<StoredMember("102", 1)>>)}

\* the store once initializeStore has resolved in a later session: the
\* diagrams are those of Firestore (one of an earlier session and an empty
\* one), the id counter is new
LoadedInit ==
  /\ \E d \in StoredDiagrams :
        userStories = [s \in StoryIds |-> IF s = "s1" THEN d ELSE Content(<<>>, <<>>)]
  /\ remote = userStories
  /\ activeStoryId = Null
  /\ storeNodes = <<>>
  /\ storeEdges = <<>>
  /\ saveTimeout = FALSE
  /\ idCounter = FIRST_ID
  /\ inFlight = {}
  /\ isPresentationMode = FALSE
  /\ presentationOrder = <<>>
  /\ currentStepIndex = 0
  /\ actors = <<>>
  /\ messages = <<>>
  /\ states = <<>>
  /\ transitions = <<>>
  /\ entities = <<>>
  /\ relationships = <<>>
  /\ gen = NoGeneration
  /\ settled = {}
  /\ layoutCalls = 0
  /\ layoutActions = 0
  /\ unsaved = {}

\* ------------------------------------------------------------------------
\* Initial state and steps
\* ------------------------------------------------------------------------
NoResult == [status |-> "none", nodes |-> <<>>, edges |-> <<>>]
NoMemo == [set |-> FALSE]

\* a call starts after the remembered one: count it (two are enough to have
\* an unrelated call between the remembered call and its repetition)
Later(m) == IF m.set THEN [m EXCEPT !.later = IF @ < 2 THEN @ + 1 ELSE @] ELSE m

NoCall ==
  /\ pc = "idle"
  /\ impl = "none"
  /\ nodes = <<>>
  /\ edges = <<>>
  /\ direction = "TB"
  /\ graph = NoGraph
  /\ backend = "none"
  /\ result = NoResult
  /\ memo = NoMemo

Init == NoCall /\ StoreInit

\* a later session: the diagrams of an earlier one have been fetched
Loaded == NoCall /\ LoadedInit

\* utils/layout.ts, up to `await elk.layout(elkGraph)`
CallElk(ns, es, d) ==
  /\ pc = "idle"
  /\ impl' = "elk"
  /\ nodes' = ns
  /\ edges' = es
  /\ direction' = d
  /\ IF Len(ns) = 0
     THEN /\ graph' = NoGraph
          /\ result' = ElkEmpty
          /\ pc' = "returned"
     ELSE /\ graph' = ElkGraph(ns, es, d)
          /\ result' = NoResult
          /\ pc' = "awaiting"
  /\ backend' = "none"
  /\ memo' = Later(memo)
  /\ UNCHANGED storeVars

\* elk.layout resolved: the rest of the try block
ElkResolve ==
  /\ pc = "awaiting"
  /\ ~ElkRejects(graph)
  /\ backend' = "ok"
  /\ result' = ElkSettled(nodes, edges, ElkLayout(graph))
  /\ pc' = "returned"
  /\ UNCHANGED <<impl, nodes, edges, direction, graph, memo, storeVars>>

\* elk.layout rejected: the catch block
ElkReject ==
  /\ pc = "awaiting"
  /\ ElkRejects(graph)
  /\ backend' = "failed"
  /\ result' = ElkSettled(nodes, edges, ElkLayout(graph))
  /\ pc' = "returned"
  /\ UNCHANGED <<impl, nodes, edges, direction, graph, memo, storeVars>>

\* utils/generateWorkflow.ts: the whole synchronous call
CallDagre(ns, es, d) ==
  /\ pc = "idle"
  /\ impl' = "dagre"
  /\ nodes' = ns
  /\ edges' = es
  /\ direction' = d
  /\ graph' = DagreGraph(ns, es, d)
  /\ result' = DagreSettled(ns, es, d, DagreLayout(graph'))
  /\ backend' = IF result'.status = "returned" THEN "ok" ELSE "failed"
  /\ pc' = "returned"
  /\ memo' = Later(memo)
  /\ UNCHANGED storeVars

\* the caller has taken the result; the locals of the call are gone
Done ==
  /\ pc = "returned"
  /\ pc' = "idle"
  /\ impl' = "none"
  /\ nodes' = <<>>
  /\ edges' = <<>>
  /\ direction' = "TB"
  /\ graph' = NoGraph
  /\ backend' = "none"
  /\ result' = NoResult
  /\ UNCHANGED <<memo, storeVars>>

Next ==
  \/ pc = "idle" /\ \E ns \in NodeSeqs, es \in EdgeSeqs, d \in LayoutDirection : CallElk(ns, es, d)
  \/ ElkResolve
  \/ ElkReject
  \/ pc = "idle" /\ \E ns \in NodeSeqs, es \in EdgeSeqs, d \in LayoutDirection : CallDagre(ns, es, d)
  \/ Done

Spec == Init /\ [][Next]_vars

\* ------------------------------------------------------------------------
\* Repeated calls: the same steps over a small set of inputs, with one
\* completed call remembered in `memo` so that a later call can be
\* compared with it
\* ------------------------------------------------------------------------
RepeatNodeSeqs ==
  {<<>>, <<StoreNode("A")>>, <<StoreNode("A"), StoreNode("B")>>}

RepeatEdgeSeqs ==
  {<<>>,
   <<StoreEdge(1, "A", "B")>>,
   <<StoreEdge(1, "A", "A")>>,
   <<StoreEdge(1, "A", "B"), StoreEdge(2, "B", "A")>>,
   <<StoreEdge(1, "X", "A")>>}

Remember ==
  /\ pc = "returned"
  /\ ~memo.set
  /\ memo' = [set |-> TRUE, later |-> 0, impl |-> impl, nodes |-> nodes,
              edges |-> edges, direction |-> direction, result |-> result]
  /\ UNCHANGED <<pc, impl, nodes, edges, direction, graph, backend, result, storeVars>>

RepeatNext ==
  \/ pc = "idle" /\ \E ns \in RepeatNodeSeqs, es \in RepeatEdgeSeqs, d \in LayoutDirection :
                      CallElk(ns, es, d)
  \/ ElkResolve
  \/ ElkReject
  \/ pc = "idle" /\ \E ns \in RepeatNodeSeqs, es \in RepeatEdgeSeqs, d \in LayoutDirection :
                      CallDagre(ns, es, d)
  \/ Done
  \/ Remember

RepeatSpec == Init /\ [][RepeatNext]_vars

\* ------------------------------------------------------------------------
\* Failure of the backend's computation itself (spec 4.1, failure
\* semantics): the steps above, and the backend erring on a graph it would
\* otherwise lay out
\* ------------------------------------------------------------------------
BackendError == [status |-> "rejected", children |-> <<>>]

\* `await elk.layout(elkGraph)` rejects
ElkFault ==
  /\ pc = "awaiting"
  /\ ~ElkRejects(graph)
  /\ backend' = "failed"
  /\ result' = ElkSettled(nodes, edges, BackendError)
  /\ pc' = "returned"
  /\ UNCHANGED <<impl, nodes, edges, direction, graph, memo, storeVars>>

\* the ELK result with no x / y on the children of U (ElkNode declares
\* both optional)
Unplaced(laid, U) ==
  [laid EXCEPT !.children =
     [i \in 1..Len(laid.children) |->
        IF laid.children[i].id \in U
        THEN [id |-> laid.children[i].id, placed |-> FALSE, x |-> 0, y |-> 0]
        ELSE laid.children[i]]]

\* elk.layout resolves, some children without coordinates
ElkPartial(U) ==
  /\ pc = "awaiting"
  /\ ~ElkRejects(graph)
  /\ U # {}
  /\ U \subseteq ChildIds(graph.children)
  /\ backend' = "partial"
  /\ result' = ElkSettled(nodes, edges, Unplaced(ElkLayout(graph), U))
  /\ pc' = "returned"
  /\ UNCHANGED <<impl, nodes, edges, direction, graph, memo, storeVars>>

\* `Dagre.layout(g)` throws
DagreFault(ns, es, d) ==
  /\ pc = "idle"
  /\ impl' = "dagre"
  /\ nodes' = ns
  /\ edges' = es
  /\ direction' = d
  /\ graph' = DagreGraph(ns, es, d)
  /\ backend' = "failed"
  /\ result' = DagreSettled(ns, es, d, BackendError)
  /\ pc' = "returned"
  /\ memo' = Later(memo)
  /\ UNCHANGED storeVars

FaultNext ==
  \/ pc = "idle" /\ \E ns \in NodeSeqs, es \in EdgeSeqs, d \in LayoutDirection : CallElk(ns, es, d)
  \/ ElkResolve
  \/ ElkReject
  \/ ElkFault
  \/ pc = "awaiting" /\ \E U \in SUBSET NodeIds : ElkPartial(U)
  \/ pc = "idle" /\ \E ns \in NodeSeqs, es \in EdgeSeqs, d \in LayoutDirection : CallDagre(ns, es, d)
  \/ pc = "idle" /\ \E ns \in NodeSeqs, es \in EdgeSeqs, d \in LayoutDirection : DagreFault(ns, es, d)
  \/ Done

FaultSpec == Init /\ [][FaultNext]_vars

\* ------------------------------------------------------------------------
\* Graphs with a shape: the steps of a call over chains, diamonds, fans and
\* cycles of three and four nodes
\* ------------------------------------------------------------------------
ShapeNodeSeqs ==
  {<<StoreNode("A"), StoreNode("B"), StoreNode("C")>>,
   <<StoreNode("B"), StoreNode("C"), StoreNode("A")>>,
   <<StoreNode("A"), StoreNode("B"), StoreNode("C"), StoreNode("D")>>,
   <<StoreNode("D"), StoreNode("C"), StoreNode("B"), StoreNode("A")>>}

ShapeEdgeSeqs ==
  {<<>>,
   <<StoreEdge(1, "A", "B"), StoreEdge(2, "B", "C")>>,
   <<StoreEdge(1, "B", "C"), StoreEdge(2, "A", "B")>>,
   <<StoreEdge(1, "A", "B"), StoreEdge(2, "B", "C"), StoreEdge(3, "A", "C")>>,
   <<StoreEdge(1, "A", "B"), StoreEdge(2, "A", "C"), StoreEdge(3, "B", "D"),
     StoreEdge(4, "C", "D")>>,
   <<StoreEdge(1, "A", "C"), StoreEdge(2, "B", "C"), StoreEdge(3, "C", "C")>>,
   <<StoreEdge(1, "A", "B"), StoreEdge(2, "B", "A"), StoreEdge(3, "B", "C")>>,
   <<StoreEdge(1, "A", "B"), StoreEdge(2, "B", "C"), StoreEdge(3, "C", "A")>>}

ShapeNext ==
  \/ pc = "idle" /\ \E ns \in ShapeNodeSeqs, es \in ShapeEdgeSeqs, d \in LayoutDirection :
                      CallElk(ns, es, d)
  \/ ElkResolve
  \/ ElkReject
  \/ pc = "idle" /\ \E ns \in ShapeNodeSeqs, es \in ShapeEdgeSeqs, d \in LayoutDirection :
                      CallDagre(ns, es, d)
  \/ Done

ShapeSpec == Init /\ [][ShapeNext]_vars

\* ------------------------------------------------------------------------
\* store/useStoryStore.ts: the operations of the store
\* ------------------------------------------------------------------------
\* ids that getNextId hands out in a run, and auto-layout actions and
\* imports in a run
MaxIds == 2
MaxCalls == 2
\* edges drawn by hand in a diagram
MaxConnections == 1
\* the directions the toolbar is used with here
StoreDirections == {"TB", "LR"}

\* a workflow node of the store: id and position (type and data play no
\* part in what follows)
WorkflowNode(id, pos, ord, kind) ==
  [id |-> id, position |-> pos, order |-> ord, nodeKind |-> kind]

\* getNextId(): the counter as a string
getNextId(counter) == ToString(counter)

NodeIdsOf(ns) == {ns[i].id : i \in 1..Len(ns)}

\* maxOrder: the largest data.order of the nodes, 0 when there are none
MaxOrder(ns) == IF Len(ns) = 0 THEN 0 ELSE SetMax({ns[i].order : i \in 1..Len(ns)})

\* [...list].sort((a, b) => a.order - b.order): ascending by order, equal
\* orders staying in the order of the list
RECURSIVE SortByOrder(_)
SortByOrder(list) ==
  IF Len(list) = 0 THEN <<>>
  ELSE LET least == CHOOSE i \in 1..Len(list) :
                       \A j \in 1..Len(list) :
                          \/ list[i].order < list[j].order
                          \/ (list[i].order = list[j].order /\ i <= j)
       IN <<list[least]>>
          \o SortByOrder(SubSeq(list, 1, least - 1) \o SubSeq(list, least + 1, Len(list)))

IdsIn(list) == [i \in 1..Len(list) |-> list[i].id]

\* getPresentationOrder(nodes): the nodes that are no annotations, by order
getPresentationOrder(ns) ==
  IdsIn(SortByOrder(SelectSeq(ns, LAMBDA n : n.nodeKind # "annotation")))

\* getMessagePresentationOrder(messages)
getMessagePresentationOrder(ms) == IdsIn(SortByOrder(ms))

\* the presentation order of a diagram of type t
OrderOf(t, ns, ms) ==
  IF t = "workflow" \/ t = Undefined
  THEN getPresentationOrder(ns) ELSE getMessagePresentationOrder(ms)

Min(a, b) == IF a < b THEN a ELSE b
Max(a, b) == IF a > b THEN a ELSE b

\* { ...doc, ...updates }, and updateDoc(doc, updates): the fields of
\* updates replace or join those of doc
Updated(doc, updates) ==
  [f \in DOMAIN doc \cup DOMAIN updates |-> IF f \in DOMAIN updates THEN updates[f] ELSE doc[f]]

\* the working collections as _saveActiveStory writes them into a diagram
\* or a document
Saved(story) ==
  Updated(story, [nodes |-> storeNodes, edges |-> storeEdges, actors |-> actors,
                  messages |-> messages, states |-> states, transitions |-> transitions,
                  entities |-> entities, relationships |-> relationships])

\* history: an operation has edited the working state of the active
\* diagram and called _debouncedSave
Edited == IF activeStoryId = Null THEN unsaved ELSE unsaved \cup {activeStoryId}

\* validEdges with a test of the source only
validEdges_sourceOnly(story) ==
  SelectSeq(story.edges, LAMBDA e : e.source \in NodeIdsOf(story.nodes))

\* validEdges: the edges of the diagram whose source and target are nodes
\* of it
validEdges(story) ==
  SelectSeq(story.edges, LAMBDA e : e.source \in NodeIdsOf(story.nodes)
                                    /\ e.target \in NodeIdsOf(story.nodes))

\* setActiveStory(id): load the diagram, without the edges whose source or
\* target is no node of it; an id that is no diagram clears the working state
SetActiveStory(id) ==
  /\ IF id \in DOMAIN userStories
     THEN LET story == userStories[id]
          IN /\ activeStoryId' = id
             /\ storeNodes' = story.nodes
             /\ storeEdges' = validEdges(story)
             /\ actors' = story.actors
             /\ messages' = story.messages
             /\ states' = story.states
             /\ transitions' = story.transitions
             /\ entities' = story.entities
             /\ relationships' = story.relationships
             /\ presentationOrder' = OrderOf(story.type, story.nodes, story.messages)
             /\ currentStepIndex' = 0
             /\ isPresentationMode' = FALSE
             /\ saveTimeout' = IF Len(validEdges(story)) # Len(story.edges)
                              THEN TRUE ELSE saveTimeout
     ELSE /\ activeStoryId' = Null
          /\ storeNodes' = <<>>
          /\ storeEdges' = <<>>
          /\ actors' = <<>>
          /\ messages' = <<>>
          /\ states' = <<>>
          /\ transitions' = <<>>
          /\ entities' = <<>>
          /\ relationships' = <<>>
          /\ presentationOrder' = <<>>
          /\ UNCHANGED <<saveTimeout, isPresentationMode, currentStepIndex>>
  /\ UNCHANGED <<userStories, remote, idCounter, inFlight, gen, settled, layoutCalls,
                 layoutActions, unsaved, layoutVars>>

\* addNode(nodeData) at the default position
AddNode ==
  /\ activeStoryId # Null
  /\ idCounter < FIRST_ID + MaxIds
  /\ storeNodes' = Append(storeNodes,
                          WorkflowNode(getNextId(idCounter), Position(250, 250),
                                       MaxOrder(storeNodes) + 1, Undefined))
  /\ presentationOrder' = getPresentationOrder(storeNodes')
  /\ idCounter' = idCounter + 1
  /\ saveTimeout' = TRUE
  /\ unsaved' = Edited
  /\ UNCHANGED <<userStories, remote, activeStoryId, storeEdges, inFlight, gen, layoutCalls,
                 layoutActions, isPresentationMode, settled, layoutVars, currentStepIndex,
                 contentVars>>

\* deleteNode(id): the node and the edges at it
DeleteNode(id) ==
  /\ id \in NodeIdsOf(storeNodes)
  /\ storeNodes' = SelectSeq(storeNodes, LAMBDA n : n.id # id)
  /\ storeEdges' = SelectSeq(storeEdges, LAMBDA e : e.source # id /\ e.target # id)
  /\ presentationOrder' = getPresentationOrder(storeNodes')
  /\ currentStepIndex' = Min(currentStepIndex, Max(0, Len(presentationOrder') - 1))
  /\ saveTimeout' = TRUE
  /\ unsaved' = Edited
  /\ UNCHANGED <<userStories, remote, activeStoryId, idCounter, inFlight, gen, layoutCalls,
                 layoutActions, isPresentationMode, settled, layoutVars, contentVars>>

\* onConnect(connection) between two nodes: addEdge gives the edge an id
\* made of its ends and leaves the list as it is when it has an edge
\* between the same ends
OnConnect(s, t) ==
  /\ Len(storeEdges) < MaxConnections
  /\ s \in NodeIdsOf(storeNodes)
  /\ t \in NodeIdsOf(storeNodes)
  /\ s # t
  /\ storeEdges' =
       IF \E i \in 1..Len(storeEdges) : storeEdges[i].source = s /\ storeEdges[i].target = t
       THEN storeEdges
       ELSE Append(storeEdges, [id |-> <<"xy-edge", s, t, "">>, source |-> s, target |-> t])
  /\ saveTimeout' = TRUE
  /\ unsaved' = Edited
  /\ UNCHANGED <<userStories, remote, activeStoryId, storeNodes, idCounter, inFlight, gen,
                 layoutCalls, layoutActions, isPresentationMode, settled, layoutVars,
                 presentVars, contentVars>>

\* onNodesChange(changes) with a change of type 'remove' for node id:
\* applyNodeChanges takes the node out of the list
OnNodesChange(id) ==
  /\ id \in NodeIdsOf(storeNodes)
  /\ storeNodes' = SelectSeq(storeNodes, LAMBDA n : n.id # id)
  /\ saveTimeout' = TRUE
  /\ unsaved' = Edited
  /\ UNCHANGED <<userStories, remote, activeStoryId, storeEdges, idCounter, inFlight, gen,
                 layoutCalls, layoutActions, isPresentationMode, settled, layoutVars,
                 presentVars, contentVars>>

\* duplicateNode(id): a copy of the node under a new id, 50 to the right
\* and 50 down
DuplicateNode(id) ==
  /\ activeStoryId # Null
  /\ id \in NodeIdsOf(storeNodes)
  /\ idCounter < FIRST_ID + MaxIds
  /\ LET sourceNode == storeNodes[CHOOSE i \in 1..Len(storeNodes) :
                                     /\ storeNodes[i].id = id
                                     /\ \A j \in 1..(i - 1) : storeNodes[j].id # id]
     IN storeNodes' = Append(storeNodes,
                             [sourceNode EXCEPT
                                !.id = getNextId(idCounter),
                                !.position = Position(sourceNode.position.x + 50,
                                                      sourceNode.position.y + 50),
                                !.order = MaxOrder(storeNodes) + 1])
  /\ presentationOrder' = getPresentationOrder(storeNodes')
  /\ idCounter' = idCounter + 1
  /\ saveTimeout' = TRUE
  /\ unsaved' = Edited
  /\ UNCHANGED <<userStories, remote, activeStoryId, storeEdges, inFlight, gen, layoutCalls,
                 layoutActions, isPresentationMode, settled, layoutVars, currentStepIndex,
                 contentVars>>

\* autoLayout(direction) up to the await: without an active diagram or
\* without nodes it returns; otherwise getLayoutedElements is called with
\* the working nodes and edges of this moment
StartLayout(d) ==
  IF activeStoryId = Null \/ Len(storeNodes) = 0
  THEN UNCHANGED <<inFlight, layoutCalls>>
  ELSE /\ inFlight' = inFlight \cup {[seq |-> layoutCalls + 1, story |-> activeStoryId,
                                     nodes |-> storeNodes, edges |-> storeEdges,
                                     direction |-> d]}
       /\ layoutCalls' = layoutCalls + 1

\* the user's auto-layout action (handleAutoLayout); layoutActions counts
\* the actions that have something to lay out, a diagram with nodes
AutoLayout(d) ==
  /\ layoutActions < MaxCalls
  /\ layoutCalls < MaxCalls
  /\ layoutActions' = IF activeStoryId = Null \/ Len(storeNodes) = 0
                      THEN layoutActions ELSE layoutActions + 1
  /\ StartLayout(d)
  /\ UNCHANGED <<userStories, remote, activeStoryId, storeNodes, storeEdges, saveTimeout,
                 idCounter, gen, unsaved, isPresentationMode, settled, layoutVars,
                 presentVars, contentVars>>

\* autoLayout after the await: getLayoutedElements has settled for call c;
\* its nodes and edges become the working state, and a save is scheduled
LayoutSettles(c) ==
  /\ c \in inFlight
  /\ LET layouted == GetLayoutedElements("elk", c.nodes, c.edges, c.direction)
     IN /\ storeNodes' = layouted.nodes
        /\ storeEdges' = layouted.edges
  /\ saveTimeout' = TRUE
  /\ inFlight' = inFlight \ {c}
  /\ settled' = settled \cup {[seq |-> c.seq, story |-> c.story]}
  /\ unsaved' = Edited
  /\ UNCHANGED <<userStories, remote, activeStoryId, idCounter, gen, layoutCalls,
                 layoutActions, isPresentationMode, layoutVars,
                 presentVars, contentVars>>

\* startPresentation(): the working nodes, edges, actors and messages are
\* reloaded from the diagram, the presentation starts at its first step
StartPresentation ==
  /\ activeStoryId \in DOMAIN userStories
  /\ LET story == userStories[activeStoryId]
     IN /\ isPresentationMode' = TRUE
        /\ currentStepIndex' = 0
        /\ presentationOrder' = OrderOf(story.type, story.nodes, story.messages)
        /\ storeNodes' = story.nodes
        /\ storeEdges' = story.edges
        /\ actors' = story.actors
        /\ messages' = story.messages
  /\ UNCHANGED <<userStories, remote, activeStoryId, saveTimeout, idCounter, inFlight, gen,
                 layoutCalls, layoutActions, unsaved, settled, layoutVars, states,
                 transitions, entities, relationships>>

\* the timer of _debouncedSave fires: _saveActiveStory() writes the working
\* state into the diagram that is active now and sends it to Firestore
SaveTimerFires ==
  /\ saveTimeout
  /\ saveTimeout' = FALSE
  /\ IF activeStoryId \notin DOMAIN userStories
     THEN UNCHANGED <<userStories, remote, unsaved>>
     ELSE /\ userStories' = [userStories EXCEPT ![activeStoryId] = Saved(@)]
          /\ remote' = IF activeStoryId \in DOMAIN remote
                       THEN [remote EXCEPT ![activeStoryId] = Saved(@)]
                       ELSE remote
          /\ unsaved' = unsaved \ {activeStoryId}
  /\ UNCHANGED <<activeStoryId, storeNodes, storeEdges, idCounter, inFlight, gen, layoutCalls, layoutActions, isPresentationMode, settled, layoutVars,
                 presentVars, contentVars>>

\* the types a diagram is created with or changed to
NewTypes == {"workflow", "ssd", "state-diagram"}

\* the ids generateId() may give a new diagram
DiagramIds == StoryIds \cup {"s3"}

\* the fields createDiagram writes into the document of a diagram
CreatedFields == {"type", "nodes", "edges", "actors", "messages"}

\* firestore.createDiagram(diagram): the document setDoc writes
createDiagram(diagram) == [f \in CreatedFields |-> diagram[f]]

\* userStories, or the documents, with diagram d under id
WithDiagram(stories, id, d) ==
  [s \in DOMAIN stories \cup {id} |-> IF s = id THEN d ELSE stories[s]]

\* createUserStory(name, type): an empty diagram of the type, a sequence
\* diagram with two actors and a state diagram with a start state, under
\* ids of getNextId
CreateUserStory(id, type) ==
  /\ id \notin DOMAIN userStories
  /\ idCounter + 2 <= FIRST_ID + MaxIds
  /\ LET newStory ==
           Diagram(type, <<>>, <<>>,
                   IF type = "ssd"
                   THEN <<StoredMember(getNextId(idCounter), 1),
                          StoredMember(getNextId(idCounter + 1), 2)>>
                   ELSE <<>>,
                   <<>>,
                   IF type = "state-diagram"
                   THEN <<StoredMember(getNextId(idCounter), 1)>> ELSE <<>>,
                   <<>>, <<>>, <<>>)
     IN /\ userStories' = WithDiagram(userStories, id, newStory)
        /\ remote' = WithDiagram(remote, id, createDiagram(newStory))
  /\ idCounter' = idCounter + (IF type = "ssd" THEN 2
                               ELSE IF type = "state-diagram" THEN 1 ELSE 0)
  /\ UNCHANGED <<activeStoryId, storeNodes, storeEdges, saveTimeout, inFlight,
                 isPresentationMode, presentVars, contentVars, gen, settled, layoutCalls,
                 layoutActions, unsaved, layoutVars>>

\* duplicateUserStory(id): a copy of the diagram under a new id
DuplicateUserStory(id, newId) ==
  /\ id \in DOMAIN userStories
  /\ newId \notin DOMAIN userStories
  /\ userStories' = WithDiagram(userStories, newId, userStories[id])
  /\ remote' = WithDiagram(remote, newId, createDiagram(userStories[id]))
  /\ UNCHANGED <<activeStoryId, storeNodes, storeEdges, saveTimeout, idCounter, inFlight,
                 isPresentationMode, presentVars, contentVars, gen, settled, layoutCalls,
                 layoutActions, unsaved, layoutVars>>

\* ClearedStory that keeps the edges
ClearedStory_keepEdges(story, newType) ==
  Updated(story,
          [type |-> newType, nodes |-> <<>>,
           actors |-> IF newType = "ssd"
                      THEN <<StoredMember("actor-1", 1), StoredMember("actor-2", 2)>>
                      ELSE <<>>,
           messages |-> <<>>,
           states |-> IF newType = "state-diagram"
                      THEN <<StoredMember("state-1", 1)>> ELSE <<>>,
           transitions |-> <<>>, entities |-> <<>>, relationships |-> <<>>])

\* the diagram as changeDiagramType leaves it: of the new type, its content
\* cleared, with the actors or the state a diagram of that type starts with
ClearedStory(story, newType) ==
  Updated(story,
          [type |-> newType, nodes |-> <<>>, edges |-> <<>>,
           actors |-> IF newType = "ssd"
                      THEN <<StoredMember("actor-1", 1), StoredMember("actor-2", 2)>>
                      ELSE <<>>,
           messages |-> <<>>,
           states |-> IF newType = "state-diagram"
                      THEN <<StoredMember("state-1", 1)>> ELSE <<>>,
           transitions |-> <<>>, entities |-> <<>>, relationships |-> <<>>])

\* changeDiagramType(id, newType): the diagram is cleared, the working
\* state too when the diagram is the active one, and the new type is sent
\* to Firestore
ChangeDiagramType(id, newType) ==
  /\ userStories' = [s \in DOMAIN userStories |->
                       IF s = id THEN ClearedStory(userStories[s], newType)
                       ELSE userStories[s]]
  /\ IF activeStoryId = id
     THEN /\ storeNodes' = <<>>
          /\ storeEdges' = <<>>
          /\ actors' = IF newType = "ssd"
                       THEN <<StoredMember("actor-1", 1), StoredMember("actor-2", 2)>>
                       ELSE <<>>
          /\ messages' = <<>>
          /\ states' = IF newType = "state-diagram"
                       THEN <<StoredMember("state-1", 1)>> ELSE <<>>
          /\ transitions' = <<>>
          /\ entities' = <<>>
          /\ relationships' = <<>>
     ELSE UNCHANGED <<storeNodes, storeEdges, contentVars>>
  /\ remote' = IF id \in DOMAIN remote
               THEN [remote EXCEPT ![id] = Updated(@, [type |-> newType])]
               ELSE remote
  /\ UNCHANGED <<activeStoryId, saveTimeout, idCounter, inFlight, isPresentationMode,
                 presentVars, gen, settled, layoutCalls, layoutActions, unsaved, layoutVars>>

\* nextStep()
NextStep ==
  /\ currentStepIndex < Len(presentationOrder) - 1
  /\ currentStepIndex' = currentStepIndex + 1
  /\ UNCHANGED <<userStories, remote, activeStoryId, storeNodes, storeEdges, saveTimeout,
                 idCounter, inFlight, isPresentationMode, presentationOrder, contentVars, gen,
                 settled, layoutCalls, layoutActions, unsaved, layoutVars>>

\* prevStep()
PrevStep ==
  /\ currentStepIndex > 0
  /\ currentStepIndex' = currentStepIndex - 1
  /\ UNCHANGED <<userStories, remote, activeStoryId, storeNodes, storeEdges, saveTimeout,
                 idCounter, inFlight, isPresentationMode, presentationOrder, contentVars, gen,
                 settled, layoutCalls, layoutActions, unsaved, layoutVars>>

\* the indices goToStep is called with
StepIndices == (0 - 1)..2

\* goToStep(index)
GoToStep(index) ==
  /\ index >= 0 /\ index < Len(presentationOrder)
  /\ currentStepIndex' = index
  /\ UNCHANGED <<userStories, remote, activeStoryId, storeNodes, storeEdges, saveTimeout,
                 idCounter, inFlight, isPresentationMode, presentationOrder, contentVars, gen,
                 settled, layoutCalls, layoutActions, unsaved, layoutVars>>

\* updateNode(id, { order: ord })
UpdateNode(id, ord) ==
  /\ storeNodes' = [i \in 1..Len(storeNodes) |->
                      IF storeNodes[i].id = id
                      THEN [storeNodes[i] EXCEPT !.order = ord] ELSE storeNodes[i]]
  /\ presentationOrder' = getPresentationOrder(storeNodes')
  /\ saveTimeout' = TRUE
  /\ unsaved' = Edited
  /\ UNCHANGED <<userStories, remote, activeStoryId, storeEdges, idCounter, inFlight,
                 isPresentationMode, currentStepIndex, contentVars, gen, settled, layoutCalls,
                 layoutActions, layoutVars>>

\* deleteMessage(id)
DeleteMessage(id) ==
  /\ messages' = SelectSeq(messages, LAMBDA m : m.id # id)
  /\ presentationOrder' = getMessagePresentationOrder(messages')
  /\ currentStepIndex' = Min(currentStepIndex, Max(0, Len(presentationOrder') - 1))
  /\ saveTimeout' = TRUE
  /\ unsaved' = Edited
  /\ UNCHANGED <<userStories, remote, activeStoryId, storeNodes, storeEdges, idCounter,
                 inFlight, isPresentationMode, actors, states, transitions, entities,
                 relationships, gen, settled, layoutCalls, layoutActions, layoutVars>>

\* the lists reorderMessages is called with: the stored messages turned
\* round, one of them, and one of them with an id that is no message
MessageIdLists == {<<"103", "102">>, <<"102">>, <<"102", "none">>}

\* reorderMessages(messageIds): the messages named, in that order, ids that
\* name no message left out
ReorderMessages(messageIds) ==
  /\ LET found(id) == {i \in 1..Len(messages) : messages[i].id = id}
         named == SelectSeq(messageIds, LAMBDA id : found(id) # {})
     IN messages' = [k \in 1..Len(named) |->
                       LET at == CHOOSE i \in found(named[k]) :
                                    \A j \in found(named[k]) : i <= j
                           index == CHOOSE i \in 1..Len(messageIds) :
                                       /\ messageIds[i] = named[k]
                                       /\ Len(SelectSeq(SubSeq(messageIds, 1, i),
                                                        LAMBDA id : found(id) # {})) = k
                       IN [messages[at] EXCEPT !.order = index]]
  /\ presentationOrder' = getMessagePresentationOrder(messages')
  /\ saveTimeout' = TRUE
  /\ unsaved' = Edited
  /\ UNCHANGED <<userStories, remote, activeStoryId, storeNodes, storeEdges, idCounter,
                 inFlight, isPresentationMode, currentStepIndex, actors, states, transitions,
                 entities, relationships, gen, settled, layoutCalls, layoutActions, layoutVars>>

\* what the sequence diagram generator hands to importGeneratedSSD: nothing,
\* or one participant p1 with a message to itself
GeneratedSSDs ==
  {[actors |-> <<>>, messages |-> <<>>, participantIdMap |-> <<>>],
   [actors |-> <<[order |-> 1]>>,
    messages |-> <<[fromActorId |-> "p1", toActorId |-> "p1"]>>,
    participantIdMap |-> <<"p1">>]}

\* importGeneratedSSD(generatedActors, generatedMessages, participantIdMap):
\* the working actors and messages are replaced by the generated ones under
\* new ids; participantIdMap[i] is the generated id of the actor at index i - 1
ImportGeneratedSSD(g) ==
  /\ activeStoryId # Null
  /\ idCounter + Len(g.actors) + Len(g.messages) <= FIRST_ID + MaxIds
  /\ LET actorIdMap(p) ==
           LET at == {i \in 1..Len(g.actors) :
                        i <= Len(g.participantIdMap) /\ g.participantIdMap[i] = p}
           IN IF at = {} THEN p ELSE getNextId(idCounter + SetMax(at) - 1)
     IN /\ actors' = [i \in 1..Len(g.actors) |->
                        [id |-> getNextId(idCounter + i - 1), order |-> g.actors[i].order]]
        /\ messages' = [i \in 1..Len(g.messages) |->
                          [id |-> getNextId(idCounter + Len(g.actors) + i - 1),
                           fromActorId |-> actorIdMap(g.messages[i].fromActorId),
                           toActorId |-> actorIdMap(g.messages[i].toActorId),
                           order |-> i]]
  /\ presentationOrder' = getMessagePresentationOrder(messages')
  /\ idCounter' = idCounter + Len(g.actors) + Len(g.messages)
  /\ saveTimeout' = TRUE
  /\ unsaved' = Edited
  /\ UNCHANGED <<userStories, remote, activeStoryId, storeNodes, storeEdges, inFlight,
                 isPresentationMode, currentStepIndex, states, transitions, entities,
                 relationships, gen, settled, layoutCalls, layoutActions, layoutVars>>

\* ------------------------------------------------------------------------
\* components/AIWorkflowGenerator.tsx and importGeneratedWorkflow
\* ------------------------------------------------------------------------
startX == 100
startY == 100
horizontalGap == 350
verticalGap == 150
nodesPerRow == 3

\* ids the generator names its nodes with; UnknownGenId is an id that no
\* generated node carries
GenIds == {"g1", "g2"}
UnknownGenId == "gX"

GenNode(g) == [id |-> g, order |-> IF g = "g1" THEN 1 ELSE 2]
GenEdge(s, t) == [source |-> s, target |-> t]

\* what generateWorkflowFromText may resolve with: node lists (the last
\* with one id used twice) and edge lists over them
GenNodeSeqs ==
  {<<>>, <<GenNode("g1")>>, <<GenNode("g1"), GenNode("g2")>>, <<GenNode("g1"), GenNode("g1")>>}

GenEdgeSeqs ==
  {<<>>,
   <<GenEdge("g1", "g2")>>,
   <<GenEdge("g1", "g1")>>,
   <<GenEdge(UnknownGenId, "g1"), GenEdge("g1", "g1")>>,
   <<GenEdge(UnknownGenId, "g2"), GenEdge("g1", "g2")>>,
   <<GenEdge("g1", "g2"), GenEdge("g2", "g1")>>}

\* idMap.get(g) after generatedNodes.map: the id given to the last
\* generated node named g, undefined when there is none
IdMapGet(gn, first, g) ==
  LET at == {i \in 1..Len(gn) : gn[i].id = g}
  IN IF at = {} THEN Undefined ELSE getNextId(first + SetMax(at) - 1)

\* the truth value JavaScript gives a string or undefined
Truthy(v) == v # Undefined /\ v # ""

\* newNodes: a grid, nodesPerRow to a row
NewNodes(gn, first, maxOrder) ==
  [i \in 1..Len(gn) |->
     WorkflowNode(getNextId(first + i - 1),
                  Position(startX + ((i - 1) % nodesPerRow) * horizontalGap,
                           startY + ((i - 1) \div nodesPerRow) * verticalGap),
                  maxOrder + gn[i].order, Undefined)]

\* NewEdges without the filter on source and target
NewEdges_unfiltered(gn, ge, first) ==
  [i \in 1..Len(ge) |->
     [id |-> <<"e", IdMapGet(gn, first, ge[i].source),
                IdMapGet(gn, first, ge[i].target), ToString(i - 1)>>,
      source |-> IdMapGet(gn, first, ge[i].source),
      target |-> IdMapGet(gn, first, ge[i].target)]]

\* newEdges: the generated edges under the new ids, those with an
\* unmapped end filtered out
NewEdges(gn, ge, first) ==
  SelectSeq([i \in 1..Len(ge) |->
               [id |-> <<"e", IdMapGet(gn, first, ge[i].source),
                          IdMapGet(gn, first, ge[i].target), ToString(i - 1)>>,
                source |-> IdMapGet(gn, first, ge[i].source),
                target |-> IdMapGet(gn, first, ge[i].target)]],
            LAMBDA e : Truthy(e.source) /\ Truthy(e.target))

\* handleGenerate: needs an active diagram; generateWorkflowFromText is
\* awaited, the component keeps the activeStoryId it was rendered with
StartGenerate ==
  /\ gen.pc = "idle"
  /\ activeStoryId # Null
  /\ layoutActions < MaxCalls
  /\ gen' = [pc |-> "generating", story |-> activeStoryId]
  /\ UNCHANGED <<userStories, remote, activeStoryId, storeNodes, storeEdges, saveTimeout,
                 idCounter, inFlight, layoutCalls, layoutActions, unsaved, isPresentationMode,
                 settled, layoutVars,
                 presentVars, contentVars>>

\* generateWorkflowFromText rejects: the catch block, nothing is imported
GenerateFails ==
  /\ gen.pc = "generating"
  /\ gen' = NoGeneration
  /\ UNCHANGED <<userStories, remote, activeStoryId, storeNodes, storeEdges, saveTimeout,
                 idCounter, inFlight, layoutCalls, layoutActions, unsaved, isPresentationMode,
                 settled, layoutVars,
                 presentVars, contentVars>>

\* generateWorkflowFromText resolved with (gn, ge):
\* importGeneratedWorkflow(gn, ge), then updateUserStory is awaited; an
\* import that leaves a diagram with nodes counts among layoutActions
ImportGenerated(gn, ge) ==
  /\ gen.pc = "generating"
  /\ idCounter + Len(gn) <= FIRST_ID + MaxIds
  /\ layoutActions < MaxCalls
  /\ IF activeStoryId = Null
     THEN \* importGeneratedWorkflow returns at once: no import took place
          UNCHANGED <<storeNodes, storeEdges, idCounter, saveTimeout, unsaved, layoutActions,
                      presentationOrder>>
     ELSE /\ storeNodes' = storeNodes \o NewNodes(gn, idCounter, MaxOrder(storeNodes))
          /\ presentationOrder' = getPresentationOrder(storeNodes')
          /\ storeEdges' = storeEdges \o NewEdges(gn, ge, idCounter)
          /\ idCounter' = idCounter + Len(gn)
          /\ saveTimeout' = TRUE
          /\ unsaved' = Edited
          /\ layoutActions' = IF Len(storeNodes) + Len(gn) = 0
                              THEN layoutActions ELSE layoutActions + 1
  /\ gen' = [gen EXCEPT !.pc = "saving"]
  /\ UNCHANGED <<userStories, remote, activeStoryId, inFlight, layoutCalls,
                 isPresentationMode, settled, layoutVars, currentStepIndex, contentVars>>

\* updateUserStory(activeStoryId, { description }) resolved; the 100 ms
\* pause follows
DescriptionSaved ==
  /\ gen.pc = "saving"
  /\ gen' = [gen EXCEPT !.pc = "pause"]
  /\ UNCHANGED <<userStories, remote, activeStoryId, storeNodes, storeEdges, saveTimeout,
                 idCounter, inFlight, layoutCalls, layoutActions, unsaved, isPresentationMode, settled, layoutVars,
                 presentVars, contentVars>>

\* updateUserStory rejected (firestore.updateDiagram failed): the catch
\* block, autoLayout is not reached
DescriptionSaveFails ==
  /\ gen.pc = "saving"
  /\ gen' = NoGeneration
  /\ UNCHANGED <<userStories, remote, activeStoryId, storeNodes, storeEdges, saveTimeout,
                 idCounter, inFlight, layoutCalls, layoutActions, unsaved, isPresentationMode, settled, layoutVars,
                 presentVars, contentVars>>

\* after the pause: autoLayout('TB')
GenAutoLayout ==
  /\ gen.pc = "pause"
  /\ layoutCalls < MaxCalls
  /\ StartLayout("TB")
  /\ gen' = NoGeneration
  /\ UNCHANGED <<userStories, remote, activeStoryId, storeNodes, storeEdges, saveTimeout,
                 idCounter, layoutActions, unsaved, isPresentationMode, settled, layoutVars,
                 presentVars, contentVars>>

\* the diagrams under the user's hands: editing, switching, presenting,
\* and the save timer
EditNext ==
  \/ \E id \in StoryIds \cup {Null} : SetActiveStory(id)
  \/ AddNode
  \/ \E id \in NodeIdsOf(storeNodes) : DeleteNode(id)
  \/ \E s, t \in NodeIdsOf(storeNodes) : OnConnect(s, t)
  \/ StartPresentation
  \/ SaveTimerFires

EditSpec == Init /\ [][EditNext]_vars

\* the timer of _debouncedSave fires 500 ms after it was last set
EditFairSpec == EditSpec /\ WF_vars(SaveTimerFires)

\* a later session over the diagrams of an earlier one: editing, switching,
\* presenting, and the save timer
LoadedNext ==
  \/ \E id \in StoryIds \cup {Null} : SetActiveStory(id)
  \/ AddNode
  \/ \E id \in NodeIdsOf(storeNodes) : DeleteNode(id)
  \/ \E id \in NodeIdsOf(storeNodes) : OnNodesChange(id)
  \/ \E id \in NodeIdsOf(storeNodes) : DuplicateNode(id)
  \/ \E s, t \in NodeIdsOf(storeNodes) : OnConnect(s, t)
  \/ StartPresentation
  \/ SaveTimerFires

LoadedSpec == Loaded /\ [][LoadedNext]_vars

\* switching between the diagrams of an earlier session, removing their
\* nodes, presenting, and the save timer
SwitchNext ==
  \/ \E id \in StoryIds \cup {Null} : SetActiveStory(id)
  \/ \E id \in NodeIdsOf(storeNodes) : DeleteNode(id)
  \/ \E id \in NodeIdsOf(storeNodes) : OnNodesChange(id)
  \/ StartPresentation
  \/ SaveTimerFires

SwitchSpec == Loaded /\ [][SwitchNext]_vars

\* presenting the diagrams of an earlier session step by step, beside the
\* operations that change what there is to step through
PresentNext ==
  \/ \E id \in StoryIds \cup {Null} : SetActiveStory(id)
  \/ StartPresentation
  \/ NextStep
  \/ PrevStep
  \/ \E index \in StepIndices : GoToStep(index)
  \/ \E id \in NodeIdsOf(storeNodes) : DeleteNode(id)
  \/ \E id \in NodeIdsOf(storeNodes), ord \in 1..2 : UpdateNode(id, ord)
  \/ \E id \in NodeIdsOf(messages) : DeleteMessage(id)
  \/ Len(messages) > 0 /\ \E messageIds \in MessageIdLists : ReorderMessages(messageIds)
  \/ \E g \in GeneratedSSDs : ImportGeneratedSSD(g)
  \/ SaveTimerFires

PresentSpec == Loaded /\ [][PresentNext]_vars

\* the diagrams and their documents: creating, copying and retyping
\* diagrams beside switching and the save timer
SyncNext ==
  \/ \E id \in DiagramIds \cup {Null} : SetActiveStory(id)
  \/ SaveTimerFires
  \/ \E id \in DiagramIds, type \in NewTypes : CreateUserStory(id, type)
  \/ \E id, newId \in DiagramIds : DuplicateUserStory(id, newId)
  \/ \E id \in DOMAIN userStories, newType \in NewTypes : ChangeDiagramType(id, newType)

SyncSpec == Loaded /\ [][SyncNext]_vars

\* auto-layout beside the other operations: editing, switching, the save
\* timer, and the layout calls settling in any order
StoreNext ==
  \/ \E id \in StoryIds \cup {Null} : SetActiveStory(id)
  \/ AddNode
  \/ \E id \in NodeIdsOf(storeNodes) : DeleteNode(id)
  \/ \E s, t \in NodeIdsOf(storeNodes) : OnConnect(s, t)
  \/ \E d \in StoreDirections : AutoLayout(d)
  \/ \E c \in inFlight : LayoutSettles(c)
  \/ SaveTimerFires

StoreSpec == Init /\ [][StoreNext]_vars

\* the workflow generator: the generation with its import and its
\* auto-layout, beside the user adding nodes, switching diagrams and asking
\* for a layout
GenerateNext ==
  \/ \E id \in StoryIds \cup {Null} : SetActiveStory(id)
  \/ AddNode
  \/ \E d \in StoreDirections : AutoLayout(d)
  \/ \E c \in inFlight : LayoutSettles(c)
  \/ StartGenerate
  \/ GenerateFails
  \/ gen.pc = "generating" /\ \E gn \in GenNodeSeqs, ge \in GenEdgeSeqs : ImportGenerated(gn, ge)
  \/ DescriptionSaved
  \/ DescriptionSaveFails
  \/ GenAutoLayout

GenerateSpec == Init /\ [][GenerateNext]_vars

\* ------------------------------------------------------------------------
\* Properties
\* ------------------------------------------------------------------------
Returned == pc = "returned" /\ result.status = "returned"

InputIds == {nodes[i].id : i \in 1..Len(nodes)}

Dangling(e) == e.source \notin InputIds \/ e.target \notin InputIds

Positions(r) == [i \in 1..Len(r.nodes) |-> r.nodes[i].position]

RemoveAt(s, i) == [j \in 1..(Len(s) - 1) |-> IF j < i THEN s[j] ELSE s[j + 1]]

\* C1: whatever the nodes, the edges and the direction, the edge list a
\* call returns is the input edge list: nothing dropped, added or changed.
C1_EdgesPreserved ==
  Returned => result.edges = edges

\* C2: when the backend's computation fails, the call does not fail; it
\* returns the input nodes, positions untouched, and the input edges.
C2_FailureFallsBack ==
  (pc = "returned" /\ backend = "failed") =>
     result = [status |-> "returned", nodes |-> nodes, edges |-> edges]

\* C3: the returned node list is as long as the input node list and holds
\* every input node exactly once, under the same id.
C3_NodesPreserved ==
  Returned =>
     /\ Len(result.nodes) = Len(nodes)
     /\ \A i \in 1..Len(nodes) :
          Cardinality({j \in 1..Len(result.nodes) : result.nodes[j].id = nodes[i].id}) = 1

C3_Witness ==
  /\ Returned
  /\ backend = "ok"
  /\ Len(nodes) = 2
  /\ Positions(result) # Positions([nodes |-> nodes])

\* C4: an edge whose source or target is no input node does not make the
\* call fail and does not move any node: the positions are those returned
\* for the same call without that edge.
C4_DanglingEdgeNoEffect ==
  pc = "returned" =>
     \A i \in 1..Len(edges) :
        Dangling(edges[i]) =>
           /\ result.status = "returned"
           /\ Positions(result) =
                Positions(GetLayoutedElements(impl, nodes, RemoveAt(edges, i), direction))

\* C5: every edge handed to the graph builder (the edges of elkGraph, the
\* g.setEdge calls) joins two input nodes.
C5_BuilderEdgesKnown ==
  \A i \in 1..Len(graph.edges) :
     graph.edges[i].source \in InputIds /\ graph.edges[i].target \in InputIds

C7_PositionsDefined ==
  Returned => \A i \in 1..Len(result.nodes) : result.nodes[i].position \in [x : Int, y : Int]

C7_Witness ==
  /\ Returned
  /\ Len(nodes) = 2
  /\ backend = "partial"
  /\ \E i \in 1..Len(nodes) :
        /\ \A j \in 1..Len(edges) :
              edges[j].source # nodes[i].id /\ edges[j].target # nodes[i].id
        /\ result.nodes[i].position # nodes[i].position
  /\ \E i \in 1..Len(nodes) : result.nodes[i].position = nodes[i].position

SameButPlacement(out, in) ==
  [out EXCEPT !.position = in.position,
              !.sourcePosition = in.sourcePosition,
              !.targetPosition = in.targetPosition] = in

Frame ==
  /\ \A i \in 1..Len(result.nodes) :
        i <= Len(nodes) /\ SameButPlacement(result.nodes[i], nodes[i])
  /\ \A i \in 1..Len(result.edges) :
        i <= Len(edges) /\ result.edges[i] = edges[i]

\* C9: a call changes nothing of a node but its position and its
\* connection sides, changes no field of any edge it returns, and leaves
\* the caller's arrays as they were while it runs.
C9_FrameOnly ==
  [][/\ pc = "awaiting" => (nodes' = nodes /\ edges' = edges)
     /\ pc' = "returned" => Frame']_vars

C9_Witness ==
  /\ Returned
  /\ Len(nodes) = 2
  /\ Len(edges) = 2
  /\ backend = "ok"
  /\ result.nodes # nodes

TrailingSide(d) ==
  CASE d = "LR" -> "right" [] d = "RL" -> "left" [] d = "TB" -> "bottom" [] d = "BT" -> "top"

LeadingSide(d) ==
  CASE d = "LR" -> "left" [] d = "RL" -> "right" [] d = "TB" -> "top" [] d = "BT" -> "bottom"

\* C10: after layout every node's outgoing side is the trailing side of the
\* direction and its incoming side the leading side (LR: right / left,
\* RL: left / right, TB: bottom / top, BT: top / bottom).
C10_SidesFollowDirection ==
  Returned =>
     \A i \in 1..Len(result.nodes) :
        /\ result.nodes[i].sourcePosition = TrailingSide(direction)
        /\ result.nodes[i].targetPosition = LeadingSide(direction)

\* the child of the backend graph that stands for node id c, and the centre
\* of the box the backend laid out for it (ELK reports the corner of the
\* box, Dagre its centre)
GraphChild(c) == graph.children[CHOOSE i \in 1..Len(graph.children) : graph.children[i].id = c]

BackendCentre(c) ==
  IF impl = "elk"
  THEN LET at == LayeredLayout(graph, ElkDirection(graph.direction), ELK_NODE_SPACING, 100, 12)
       IN Position(at[c].x + GraphChild(c).width \div 2, at[c].y + GraphChild(c).height \div 2)
  ELSE DagreLayout(graph).centre[c]

\* C11: after a successful layout every returned position is the top-left
\* corner of the node's box: the centre the backend computed, minus half the
\* width on x and half the height on y, with the width and height the
\* backend was given for that node.
C11_TopLeftCorner ==
  (Returned /\ backend = "ok") =>
     \A i \in 1..Len(result.nodes) :
        LET c == result.nodes[i].id
        IN result.nodes[i].position =
             Position(BackendCentre(c).x - GraphChild(c).width \div 2,
                      BackendCentre(c).y - GraphChild(c).height \div 2)

C11_Witness ==
  /\ Returned
  /\ backend = "ok"
  /\ impl = "dagre"
  /\ Len(nodes) = 2
  /\ Len(edges) > 0
  /\ \A i \in 1..Len(nodes) : result.nodes[i].position # nodes[i].position

\* C12: a call with no nodes and no edges returns { nodes: [], edges: [] }
\* in every direction, without error, and without the layout backend being
\* run.
C12_EmptyFastPath ==
  (pc = "returned" /\ nodes = <<>> /\ edges = <<>>) =>
     /\ result = [status |-> "returned", nodes |-> <<>>, edges |-> <<>>]
     /\ backend = "none"

\* the edges of the input between two different nodes
ProperEdges == {<<edges[i].source, edges[i].target>> : i \in {j \in 1..Len(edges) : edges[j].source # edges[j].target}}

\* no path of such edges leads from a node back to it
Acyclic ==
  \A e \in ProperEdges : ~Reaches(ProperEdges, e[2], e[1], Cardinality(ProperEdges))

ResultPosition(c) ==
  result.nodes[CHOOSE i \in 1..Len(result.nodes) : result.nodes[i].id = c].position

\* how far a position is along the primary axis of a direction
Along(d, p) ==
  CASE d = "TB" -> p.y [] d = "BT" -> 0 - p.y [] d = "LR" -> p.x [] d = "RL" -> 0 - p.x

Footprint == IF impl = "elk" THEN [w |-> ELK_NODE_WIDTH, h |-> ELK_NODE_HEIGHT]
                             ELSE [w |-> DAGRE_NODE_WIDTH, h |-> DAGRE_NODE_HEIGHT]

NodeSpacing == IF impl = "elk" THEN ELK_NODE_SPACING ELSE DAGRE_NODESEP

Overlap(p, q) ==
  /\ p.x < q.x + Footprint.w /\ q.x < p.x + Footprint.w
  /\ p.y < q.y + Footprint.h /\ q.y < p.y + Footprint.h

Distance(a, b) == IF a < b THEN b - a ELSE a - b

\* same rank: the same place along the primary axis; then the boxes are
\* NodeSpacing apart along the other axis
SameRank(p, q) == IF Horizontal(direction) THEN p.x = q.x ELSE p.y = q.y

Apart(p, q) ==
  IF Horizontal(direction) THEN Distance(p.y, q.y) - Footprint.h >= NodeSpacing
                           ELSE Distance(p.x, q.x) - Footprint.w >= NodeSpacing

C13_LaterCallSupersedes ==
  [][\A c \in inFlight :
        (/\ c \notin inFlight'
         /\ activeStoryId = c.story
         /\ \E k \in settled : k.seq > c.seq /\ k.story = c.story)
        => storeNodes' = storeNodes]_vars

\* C14: getLayoutedElements is called exactly once for each auto-layout
\* action of the user on a diagram with nodes and for each import of a
\* generated workflow into one: never more often than there were such
\* actions, and as often once no generation is under way.
C14_LayoutOncePerAction ==
  /\ layoutCalls <= layoutActions
  /\ gen.pc = "idle" => layoutCalls = layoutActions

\* C17: importGeneratedWorkflow keeps the nodes and edges the diagram had,
\* in place and unchanged, and every edge it adds joins two nodes that are
\* in the diagram after it (a generated edge naming an id that no generated
\* node carries is not added).
C17_ImportedEdgesKnown ==
  [][(gen.pc = "generating" /\ gen'.pc = "saving") =>
        /\ Len(storeNodes') >= Len(storeNodes)
        /\ SubSeq(storeNodes', 1, Len(storeNodes)) = storeNodes
        /\ Len(storeEdges') >= Len(storeEdges)
        /\ SubSeq(storeEdges', 1, Len(storeEdges)) = storeEdges
        /\ \A i \in (Len(storeEdges) + 1)..Len(storeEdges') :
              /\ storeEdges'[i].source \in NodeIdsOf(storeNodes')
              /\ storeEdges'[i].target \in NodeIdsOf(storeNodes')]_vars

\* a second import into a diagram that holds a node and an edge of a first:
\* of its two generated edges the first (index 0) named an unknown id and
\* is not there, the second (index 1) is
C17_Witness ==
  /\ gen.pc = "saving"
  /\ activeStoryId # Null
  /\ Len(storeNodes) = 2
  /\ Len(storeEdges) = 2
  /\ storeEdges[1].id[4] = "0"
  /\ storeEdges[1].source = storeNodes[1].id /\ storeEdges[1].target = storeNodes[1].id
  /\ storeEdges[2].id[4] = "1"
  /\ storeEdges[2].source = storeNodes[2].id /\ storeEdges[2].target = storeNodes[2].id

\* C18: the entry of the active diagram being in sync with the working
\* state, startPresentation changes neither the working nodes nor the
\* working edges (so no later save can write older content over an edit).
C18_PresentationKeepsWorking ==
  [][(~isPresentationMode /\ isPresentationMode') =>
        (storeNodes' = storeNodes /\ storeEdges' = storeEdges)]_vars

\* C19: every edit of a diagram is eventually written into the entry of
\* that diagram and sent to the remote store, also when another diagram is
\* made active before the save timer fires.
C19_EditsReachStore ==
  \A s \in StoryIds : (s \in unsaved) ~> (s \notin unsaved)

\* C20: autoLayout changes positions only: when a call applies its result,
\* the ids of the working nodes and the working edges are those of the
\* moment before, whatever ran during the await, and the active diagram is
\* the one whose nodes the call laid out.
C20_LayoutMovesOnly ==
  [][\A c \in inFlight :
        c \notin inFlight' =>
           /\ NodeIdsOf(storeNodes') = NodeIdsOf(storeNodes)
           /\ storeEdges' = storeEdges
           /\ activeStoryId = c.story]_vars

\* C21: every working edge joins two working nodes, in every state the
\* store operations lead to.
C21_WorkingEdgesJoinNodes ==
  \A i \in 1..Len(storeEdges) :
     /\ storeEdges[i].source \in NodeIdsOf(storeNodes)
     /\ storeEdges[i].target \in NodeIdsOf(storeNodes)

\* C24: the ids of the working nodes are pairwise distinct in every state,
\* also in a diagram that an earlier session has created.
C24_NodeIdsDistinct ==
  \A i, j \in 1..Len(storeNodes) : storeNodes[i].id = storeNodes[j].id => i = j

\* the diagram's edges that setActiveStory is to keep
KeptEdges(story) ==
  LET keep == {i \in 1..Len(story.edges) :
                 /\ \E n \in 1..Len(story.nodes) : story.nodes[n].id = story.edges[i].source
                 /\ \E n \in 1..Len(story.nodes) : story.nodes[n].id = story.edges[i].target}
      Nth(k) == CHOOSE i \in keep : Cardinality({j \in keep : j <= i}) = k
  IN [k \in 1..Cardinality(keep) |-> story.edges[Nth(k)]]

\* C25: setActiveStory(id) for a diagram makes the working edges the edges
\* of the diagram that join two of its nodes, in their order, puts the step
\* index to 0 and ends the presentation mode, and schedules a save exactly
\* when it has left an edge out.
C25_SetActiveStoryFilters ==
  [][(activeStoryId' # activeStoryId /\ activeStoryId' # Null) =>
        LET story == userStories[activeStoryId']
        IN /\ storeEdges' = KeptEdges(story)
           /\ currentStepIndex' = 0
           /\ isPresentationMode' = FALSE
           /\ ~saveTimeout => (saveTimeout' <=> Len(KeptEdges(story)) # Len(story.edges))]_vars

\* setActiveStory has loaded a diagram with an edge to a node that is not
\* there, left the edge out, and scheduled the save
C25_Witness ==
  /\ activeStoryId \in DOMAIN userStories
  /\ Len(userStories[activeStoryId].edges) = 1
  /\ Len(userStories[activeStoryId].nodes) = 1
  /\ storeNodes = userStories[activeStoryId].nodes
  /\ storeEdges = <<>>
  /\ saveTimeout
  /\ ~isPresentationMode
  /\ unsaved = {}

\* C22: the step index is 0 when there is nothing to step through and else
\* an index into presentationOrder, in every state.
C22_StepIndexInRange ==
  IF Len(presentationOrder) = 0
  THEN currentStepIndex = 0
  ELSE 0 <= currentStepIndex /\ currentStepIndex < Len(presentationOrder)

Collections ==
  {"nodes", "edges", "actors", "messages", "states", "transitions", "entities",
   "relationships"}

\* a collection of a diagram or a document, empty when it has none
Collection(doc, f) == IF f \in DOMAIN doc THEN doc[f] ELSE <<>>

\* C23: with no save pending and no edit waiting for one, the document of
\* every diagram holds the collections that the diagram holds in
\* userStories.
C23_RemoteMatchesLocal ==
  (~saveTimeout /\ unsaved = {}) =>
     \A id \in DOMAIN userStories :
        /\ id \in DOMAIN remote
        /\ \A f \in Collections : Collection(remote[id], f) = Collection(userStories[id], f)

\* C26: changeDiagramType(id, t) leaves diagram id of type t with empty
\* nodes, edges, messages, transitions, entities and relationships and with
\* the actors and states a diagram of type t starts with; it clears the
\* working state in the same way exactly when id is the active diagram;
\* every other diagram stays as it is.
C26_ChangeDiagramTypeClears ==
  [][\A id \in DOMAIN userStories, t \in NewTypes :
        ChangeDiagramType(id, t) =>
           LET startActors == IF t = "ssd"
                              THEN <<[id |-> "actor-1", order |-> 1],
                                     [id |-> "actor-2", order |-> 2]>>
                              ELSE <<>>
               startStates == IF t = "state-diagram"
                              THEN <<[id |-> "state-1", order |-> 1]>> ELSE <<>>
           IN /\ DOMAIN userStories' = DOMAIN userStories
              /\ \A s \in DOMAIN userStories \ {id} : userStories'[s] = userStories[s]
              /\ userStories'[id] = Diagram(t, <<>>, <<>>, startActors, <<>>, startStates,
                                         <<>>, <<>>, <<>>)
              /\ IF activeStoryId = id
                 THEN /\ storeNodes' = <<>> /\ storeEdges' = <<>>
                      /\ actors' = startActors /\ messages' = <<>>
                      /\ states' = startStates /\ transitions' = <<>>
                      /\ entities' = <<>> /\ relationships' = <<>>
                 ELSE UNCHANGED <<storeNodes, storeEdges, contentVars>>]_vars

\* the active diagram, once a workflow with two connected nodes, has been
\* made a sequence diagram, and its copy has kept the two nodes
C26_Witness ==
  /\ activeStoryId = "s1"
  /\ userStories["s1"].type = "ssd"
  /\ userStories["s1"].nodes = <<>> /\ userStories["s1"].edges = <<>>
  /\ actors = <<[id |-> "actor-1", order |-> 1], [id |-> "actor-2", order |-> 2]>>
  /\ storeNodes = <<>>
  /\ "s3" \in DOMAIN userStories
  /\ userStories["s3"].type = "workflow"
  /\ Len(userStories["s3"].nodes) = 2

====
